---- MODULE Spec2Model ----
(***************************************************************************)
(* News-to-avatar-video pipeline: the orchestrator of app/main.py (the     *)
(* blocking endpoint generate_news_video and the progressive endpoint      *)
(* generate_news_video_stream) together with the D-ID render job of        *)
(* app/avatar.py (submit, then poll until terminal or timeout), the        *)
(* scraper of app/scraper.py, the summarizer of app/summarizer.py and the  *)
(* script composer of app/script_generator.py.                             *)
(*                                                                         *)
(* Text is a sequence of one-character strings, except for the fixed       *)
(* lines (opening, closing, message texts), which are single tokens.       *)
(* Exceptions are records [type, msg]; msg is a sequence of tokens, so     *)
(* that wrapping a message (f"Failed to generate video: {e}") is a         *)
(* concatenation.                                                          *)
(***************************************************************************)
EXTENDS Integers, Sequences, FiniteSets, TLC

VARIABLES
  env,                  \* the world of the run: the web the scraper sees, the provider's latencies
  mode,                 \* "blocking" (POST /generate-news-video) or "progressive" (GET ...-stream)
  pc,                   \* position of the run in the handler
  articles,             \* main.py: articles, the scraper's result
  idx,                  \* main.py: index of the next article of the summarize loop
  summarized_articles,  \* main.py: summarized_articles
  summarizer_calls,     \* titles handed to NewsSummarizer.summarize_article, in call order
  summarize_outcomes,   \* per call, whether summarize_article returned (TRUE) or raised (FALSE)
  composer_calls,       \* number of calls of ScriptGenerator.generate_script
  script,               \* main.py: script
  talk_id,              \* avatar.py: talk_id of generate_video
  submits,              \* number of POST /talks requests
  polls,                \* number of GET /talks/{id} requests
  poll_ids,             \* the set of talk ids polled
  clock,                \* avatar.py: time.time() - start_time
  poll_failed,          \* "Error checking video status" was logged during this wait
  wait_result,          \* what _wait_for_video did: still polling, returned, raised
  events,               \* progressive mode: the events yielded so far
  stream_closed,        \* progressive mode: the generator has finished
  response,             \* blocking mode: the NewsVideoResponse or the HTTPException
  remote,               \* the provider's record of the submitted job, where the world keeps one
  status_result,        \* avatar.py: what the last get_video_status returned or raised
  deletes,              \* number of DELETE /talks/{id} requests
  consumer,             \* progressive mode: the reader of the stream, "open" or "closed"
  log_capturer,         \* main.py: log_capturer.logs, the one module-level list
  scraper,              \* scraper.py: the locals of one call of scrape_articles, followed step by step
  run2                  \* the locals of a second request, handled by generate_news_video

\* the state of the run
run_vars == <<env, mode, pc, articles, idx, summarized_articles, summarizer_calls,
              summarize_outcomes,
              composer_calls, script, talk_id, submits, polls, poll_ids, clock,
              poll_failed, wait_result, events, stream_closed, response>>

\* the state around it
world_vars == <<remote, status_result, deletes, consumer, log_capturer, scraper>>

vars == <<run_vars, world_vars, run2>>

----------------------------------------------------------------------------
(* Program constants *)

\* main.py: scraper.scrape_articles(num_articles=5)
NumArticles == 5
\* avatar.py: _wait_for_video(..., max_wait_seconds: int = 300)
MaxWaitSeconds == 300
\* avatar.py: time.sleep(5)
PollInterval == 5
\* avatar.py: requests.get(endpoint, headers=self.headers, timeout=30)
RequestTimeout == 30
\* scraper.py: len(article['title']) < 10
MinTitleLen == 10
\* scraper.py: len(article['content']) < 200
MinContentLen == 200
\* scraper.py: _get_article_links(self, source_url, max_links=10)
max_links == 10

(* Bounds of the model *)

\* the longest link list a source page yields in the runs explored
MaxLinks == 6
\* the longest a status request (or an overlong sleep) may take beyond the interval
MaxLatency == 1
\* the most calls of delete_video explored
MaxDeletes == 1
\* the most sources of a source list, and the most links of all its sources
\* together, where the scraper is followed step by step
MaxSources == 2
MaxScrapeLinks == 3

Missing == "<missing>"      \* a key absent from a JSON object, or None where noted
Null == "<null>"            \* a JSON null

----------------------------------------------------------------------------
(* Text helpers: Python's str.split, str.join, str.strip, str.endswith *)

\* s.split(sep) for a one-character sep
\* the pieces of s from position i on, after the pieces found so far and the
\* piece being read
RECURSIVE SplitFrom(_, _, _, _, _)
SplitFrom(s, sep, i, pieces, piece) ==
  IF i > Len(s) THEN Append(pieces, piece)
  ELSE IF s[i] = sep THEN SplitFrom(s, sep, i + 1, Append(pieces, piece), <<>>)
  ELSE SplitFrom(s, sep, i + 1, pieces, Append(piece, s[i]))

Split(s, sep) == SplitFrom(s, sep, 1, <<>>, <<>>)

\* sep.join(pieces)
RECURSIVE Join(_, _)
Join(pieces, sep) ==
  IF pieces = <<>> THEN <<>>
  ELSE IF Len(pieces) = 1 THEN pieces[1]
  ELSE pieces[1] \o sep \o Join(Tail(pieces), sep)

RECURSIVE LStrip(_)
LStrip(s) == IF s # <<>> /\ Head(s) = " " THEN LStrip(Tail(s)) ELSE s

RECURSIVE RStrip(_)
RStrip(s) == IF s # <<>> /\ s[Len(s)] = " " THEN RStrip(SubSeq(s, 1, Len(s) - 1)) ELSE s

Strip(s) == LStrip(RStrip(s))

EndsWith(s, c) == s # <<>> /\ s[Len(s)] = c

\* items[:n]
Take(items, n) == SubSeq(items, 1, IF Len(items) < n THEN Len(items) ELSE n)

----------------------------------------------------------------------------
(* app/scraper.py *)

\* What one candidate link yields when extracted: an exception, or a page with
\* a title and a text of some length.
Page(k, tlen, clen, raises) ==
  [id |-> k, title_len |-> tlen, content_len |-> clen, raises |-> raises]

\* _extract_article: the article dictionary of a page (scraped_at left out)
extract_article(page) ==
  [title   |-> [id |-> page.id, len |-> page.title_len],
   content |-> [id |-> page.id, len |-> page.content_len],
   url     |-> page.id]

is_valid_article(article) ==
  /\ article.title.len >= MinTitleLen
  /\ article.content.len >= MinContentLen
  /\ article.url # 0

\* the inner loop of scrape_articles over the links of one source
RECURSIVE scrape_links(_, _, _)
scrape_links(links, acc, num_articles) ==
  IF links = <<>> \/ Len(acc) >= num_articles THEN acc
  ELSE LET page == Head(links)
           acc2 == IF ~page.raises /\ is_valid_article(extract_article(page))
                   THEN Append(acc, extract_article(page))
                   ELSE acc
       IN scrape_links(Tail(links), acc2, num_articles)

\* the outer loop over settings.NEWS_SOURCES; a source is the list of pages
\* behind the links _get_article_links found (empty when it failed)
RECURSIVE scrape_sources(_, _, _)
scrape_sources(sources, acc, num_articles) ==
  IF sources = <<>> \/ Len(acc) >= num_articles THEN acc
  ELSE scrape_sources(Tail(sources),
                      scrape_links(Head(sources), acc, num_articles),
                      num_articles)

scrape_articles(sources, num_articles) ==
  Take(scrape_sources(sources, <<>>, num_articles), num_articles)

\* The webs explored by the runs: one source whose n links all lead to valid
\* pages 1..n.
GoodPage(k) == Page(k, MinTitleLen, MinContentLen, FALSE)
Web(n) == << [k \in 1..n |-> GoodPage(k)] >>
Webs == { Web(n) : n \in 0..MaxLinks }

\* A source as the scraper meets it: the request for its homepage fails, or
\* the homepage lists links to pages.
Source(fails, links) == [fails |-> fails, links |-> links]

\* _get_article_links: the links found, at most max_links of them, and [] on
\* any exception
get_article_links(source) ==
  IF source.fails THEN <<>> ELSE Take(source.links, max_links)

\* What a link may lead to: a valid page, an extraction that raises, a page
\* whose title is one character short, a page whose text is one character
\* short.
PageKinds == {"good", "raises", "short_title", "short_content"}

PageOfKind(k, kind) ==
  CASE kind = "good" -> GoodPage(k)
    [] kind = "raises" -> Page(k, MinTitleLen, MinContentLen, TRUE)
    [] kind = "short_title" -> Page(k, MinTitleLen - 1, MinContentLen, FALSE)
    [] kind = "short_content" -> Page(k, MinTitleLen, MinContentLen - 1, FALSE)

\* the sequences of at most n kinds
KindSeqs(n) == UNION { [1..m -> PageKinds] : m \in 0..n }

\* a source that fails, or one with at most b links of any kinds
SourceShapes(b) == { Source(TRUE, <<>>) } \cup { Source(FALSE, ks) : ks \in KindSeqs(b) }

\* the source lists of at most k sources with at most b links in all
RECURSIVE WebShapes(_, _)
WebShapes(k, b) ==
  IF k = 0 THEN { <<>> }
  ELSE { <<>> } \cup
       UNION { { <<sh>> \o w : w \in WebShapes(k - 1, b - Len(sh.links)) } :
               sh \in SourceShapes(b) }

\* link i of source j, numbered in the order of discovery
LinkId(j, i) == j * max_links + i

SourceAt(j, shape) ==
  Source(shape.fails,
         [i \in 1..Len(shape.links) |-> PageOfKind(LinkId(j, i), shape.links[i])])

\* The source lists explored by the scraper on its own: sources that fail
\* or not, links of every kind in every order.
ScrapeWebs ==
  { [j \in 1..Len(w) |-> SourceAt(j, w[j])] : w \in WebShapes(MaxSources, MaxScrapeLinks) }

\* the values of num_articles explored: none wanted, and fewer than the links
\* there may be
Wanted == 0..(MaxScrapeLinks - 1)

\* no call of scrape_articles under way
NoScrape ==
  [pc |-> "idle", num_articles |-> 0, sources_tried |-> 0, article_links |-> <<>>,
   link |-> 0, articles |-> <<>>, source_fetches |-> <<>>, link_fetches |-> <<>>,
   result |-> <<>>]

\* config.py: the two credentials of Settings, "" when the environment does
\* not set them
Settings(openai_key, did_key) == [OPENAI_API_KEY |-> openai_key, DID_API_KEY |-> did_key]

Configured == Settings("sk-key", "did-key")

\* the settings with one credential or both left empty
Unconfigured ==
  { Settings(o, d) : o \in {"", "sk-key"}, d \in {"", "did-key"} } \ { Configured }

\* The worlds explored: every web with a render provider that answers at
\* once, a one-article web with a provider of every latency, and a
\* two-article web with a credential missing.
Environments ==
  { [web |-> w, latency |-> 0..0, settings |-> Configured] : w \in Webs } \cup
  { [web |-> Web(1), latency |-> 0..MaxLatency, settings |-> Configured] } \cup
  { [web |-> Web(2), latency |-> 0..0, settings |-> st] : st \in Unconfigured }

\* an exception: its class and the text of its message
Exc(type, msg) == [type |-> type, msg |-> msg]
NoExc == Exc("none", <<>>)

----------------------------------------------------------------------------
(* app/config.py *)

\* validate_settings: the ValueError it raises lists the credentials not set
validate_settings(settings) ==
  LET errors ==
        (IF settings.OPENAI_API_KEY = "" THEN <<"- OPENAI_API_KEY is not set">> ELSE <<>>) \o
        (IF settings.DID_API_KEY = "" THEN <<"- DID_API_KEY is not set">> ELSE <<>>)
  IN IF errors # <<>>
     THEN [ok |-> FALSE, exc |-> Exc("ValueError", <<"Configuration errors:">> \o errors)]
     ELSE [ok |-> TRUE, exc |-> NoExc]

----------------------------------------------------------------------------
(* app/summarizer.py *)

\* response.choices[0].message.content of a successful completion: what the
\* model writes for an article, by the article's number. One sentence with
\* blanks around it, one sentence, two sentences, three, four.
Completions ==
  << <<" ", "a", ".", " ">>,
     <<"b", ".">>,
     <<"c", ".", " ", "d", ".">>,
     <<"e", ".", " ", "f", ".", " ", "g", ".">>,
     <<"h", ".", " ", "i", ".", " ", "j", ".", " ", "k", ".">> >>

Completion(article) == Completions[((article.title.id - 1) % Len(Completions)) + 1]

\* How client.chat.completions.create ends: with a completion, with
\* openai.AuthenticationError, with openai.RateLimitError, or with any other
\* exception.
LLMOutcomes == {"ok", "auth", "rate_limit", "error"}

\* The client is built with settings.OPENAI_API_KEY: without a key the
\* provider answers no request with a completion.
LLMAnswers(settings) ==
  IF settings.OPENAI_API_KEY = "" THEN {"auth", "error"} ELSE LLMOutcomes

\* summarize_article: the outcome of one call, by how the completion request
\* ended
summarize_article(article, llm) ==
  CASE llm = "ok" ->
         [ok |-> TRUE, summary |-> Strip(Completion(article)), exc |-> NoExc]
    [] llm = "auth" ->
         [ok |-> FALSE, summary |-> <<>>,
          exc |-> Exc("ValueError", <<"Invalid OpenAI API key">>)]
    [] llm = "rate_limit" ->
         [ok |-> FALSE, summary |-> <<>>,
          exc |-> Exc("ValueError", <<"OpenAI rate limit exceeded. Please try again later.">>)]
    [] OTHER ->
         [ok |-> FALSE, summary |-> <<>>,
          exc |-> Exc("ValueError", <<"Failed to summarize article: ", "<error>">>)]

----------------------------------------------------------------------------
(* app/script_generator.py *)

Opening == "Here are today's top stories for <date>."
Closing == "That's your news update."

\* the body of the loop of _create_headlines_short
short_summary(summary) ==
  LET sentences == Split(summary, ".")
      joined == Strip(Join(Take(sentences, 2), <<".", " ">>))
  IN IF joined # <<>> /\ ~EndsWith(joined, ".") THEN Append(joined, ".") ELSE joined

\* Faulty variant: the fragments are joined last article first.
create_headlines_short_reversed(arts) ==
  Join([i \in 1..Len(arts) |-> short_summary(arts[Len(arts) + 1 - i].summary)], <<" ">>)

create_headlines_short(arts) ==
  Join([i \in 1..Len(arts) |-> short_summary(arts[i].summary)], <<" ">>)

generate_script(arts) ==
  <<Opening, " ">> \o create_headlines_short(arts) \o <<" ", Closing>>

----------------------------------------------------------------------------
(* Exceptions, events and responses *)

\* json.dumps({'type': 'log', 'message': ..., 'progress': ...}); arg is the
\* number the message text embeds (0 when it embeds none)
Log(text, arg, progress) ==
  [type |-> "log", message |-> text, arg |-> arg, progress |-> progress]

\* main.py: error_response
ErrorEvent(exc) == [type |-> "error", message |-> exc.msg, error |-> TRUE]

\* main.py: response_data
CompleteEvent(s, url, arts) ==
  [type |-> "complete", status |-> "success", script |-> s, video_url |-> url,
   articles |-> arts, progress |-> 100]

\* main.py: NewsVideoResponse(...)
NewsVideoResponse(s, url, arts) ==
  [kind |-> "success", status |-> "success", script |-> s, video_url |-> url,
   articles |-> arts]

\* what the blocking endpoint raises: HTTPException(status_code=500, detail=...)
HTTPException(detail) == [kind |-> "http_error", status_code |-> 500, detail |-> detail]

NoResponse == [kind |-> "none"]

\* Faulty variant: ten points per article, which overtakes the 55 that follows the loop.
SummarizeProgress_step10(i) == 30 + (i * 10)

\* main.py: 'progress': 30 + (i * 5) of the per-article messages
SummarizeProgress(i) == 30 + (i * 5)

\* The exception a stage raises on an empty result: ValueError(...) in the
\* progressive handler, HTTPException(detail=...) in the blocking one.
EmptyStageExc(m, stage) ==
  IF m = "progressive"
  THEN Exc("ValueError",
           CASE stage = "scrape"    -> <<"Failed to scrape articles">>
             [] stage = "summarize" -> <<"Failed to summarize articles">>
             [] stage = "script"    -> <<"Failed to generate script">>
             [] stage = "render"    -> <<"Failed to generate avatar video">>)
  ELSE Exc("HTTPException",
           CASE stage = "scrape"    -> <<"Failed to scrape articles. Please try again.">>
             [] stage = "summarize" -> <<"Failed to summarize articles. Please check API credentials.">>
             [] stage = "script"    -> <<"Failed to generate script">>
             [] stage = "render"    -> <<"Failed to generate avatar video. Please check API credentials.">>)

Fail_error_event_dropped(exc, pre) ==
  /\ pc' = "end"
  /\ IF mode = "progressive"
     THEN /\ events' = events \o pre
          /\ stream_closed' = TRUE
          /\ response' = response
     ELSE /\ response' = HTTPException(IF exc.type = "HTTPException" THEN exc.msg
                                       ELSE <<"Internal server error: ">> \o exc.msg)
          /\ events' = events
          /\ stream_closed' = stream_closed

\* Faulty variant: a failure hands over what the run had produced so far.
Fail_with_partial_result(exc, pre) ==
  /\ pc' = "end"
  /\ IF mode = "progressive"
     THEN /\ events' = events \o pre \o
                 <<[type |-> "error", message |-> exc.msg, error |-> TRUE,
                    script |-> script]>>
          /\ stream_closed' = TRUE
          /\ response' = response
     ELSE /\ response' = [kind |-> "http_error", status_code |-> 500,
                          detail |-> exc.msg, script |-> script]
          /\ events' = events
          /\ stream_closed' = stream_closed

\* The except clauses that end a run: the progressive handler yields the
\* error event after the events already due (pre) and finishes; the blocking
\* handler re-raises an HTTPException and wraps anything else.
Fail(exc, pre) ==
  /\ pc' = "end"
  /\ IF mode = "progressive"
     THEN /\ events' = events \o pre \o <<ErrorEvent(exc)>>
          /\ stream_closed' = TRUE
          /\ response' = response
     ELSE /\ response' = HTTPException(IF exc.type = "HTTPException" THEN exc.msg
                                       ELSE <<"Internal server error: ">> \o exc.msg)
          /\ events' = events
          /\ stream_closed' = stream_closed

Emit(evs) == IF mode = "progressive" THEN events \o evs ELSE events

----------------------------------------------------------------------------
(* app/avatar.py *)

\* What POST /talks may answer: no answer at all (a transport failure), or a
\* status code with a JSON body that holds an id or not.
SubmitResponse(transport_ok, status_code, id) ==
  [transport_ok |-> transport_ok, status_code |-> status_code, id |-> id]

SubmitResponses ==
  { SubmitResponse(FALSE, 0, Missing) } \cup
  { SubmitResponse(TRUE, c, Missing) : c \in {401, 500} } \cup
  { SubmitResponse(TRUE, 200, i) : i \in {"tlk_1", "", Missing} }

\* The request carries settings.DID_API_KEY: without a key the provider
\* accepts no submission.
SubmitAnswers(settings) ==
  IF settings.DID_API_KEY = ""
  THEN { resp \in SubmitResponses : ~resp.transport_ok \/ resp.status_code = 401 }
  ELSE SubmitResponses

\* Faulty variant: raise_for_status() before the 401 check, so that a 401 is
\* reported as any other HTTP failure.
create_talk_status_first(resp) ==
  IF ~resp.transport_ok
  THEN [ok |-> FALSE, talk_id |-> Missing,
        exc |-> Exc("ValueError", <<"D-ID API error: ", "<transport>">>)]
  ELSE IF resp.status_code >= 400
  THEN [ok |-> FALSE, talk_id |-> Missing,
        exc |-> Exc("ValueError", <<"D-ID API error: ", "<http status>">>)]
  ELSE IF resp.id \in {Missing, ""}
  THEN [ok |-> FALSE, talk_id |-> Missing,
        exc |-> Exc("ValueError", <<"No talk ID returned from D-ID API">>)]
  ELSE [ok |-> TRUE, talk_id |-> resp.id, exc |-> NoExc]

\* _create_talk: [ok, talk_id, exc]
create_talk(resp) ==
  IF ~resp.transport_ok
  THEN [ok |-> FALSE, talk_id |-> Missing,
        exc |-> Exc("ValueError", <<"D-ID API error: ", "<transport>">>)]
  ELSE IF resp.status_code = 401
  THEN [ok |-> FALSE, talk_id |-> Missing,
        exc |-> Exc("ValueError", <<"D-ID authentication failed. Check API key.">>)]
  ELSE IF resp.status_code >= 400
  THEN [ok |-> FALSE, talk_id |-> Missing,
        exc |-> Exc("ValueError", <<"D-ID API error: ", "<http status>">>)]
  ELSE IF resp.id \in {Missing, ""}
  THEN [ok |-> FALSE, talk_id |-> Missing,
        exc |-> Exc("ValueError", <<"No talk ID returned from D-ID API">>)]
  ELSE [ok |-> TRUE, talk_id |-> resp.id, exc |-> NoExc]

\* What GET /talks/{id} may answer: a failure of the request (ok is FALSE:
\* no answer at all, status_code 0, or an HTTP error status, on which
\* raise_for_status raises), or a JSON body {status, result_url?, error?}.
\* error is Missing (no such key), Null, or "object"; description is the
\* error object's description, or Missing.
PollResponse(ok, status_code, status, result_url, error, description) ==
  [ok |-> ok, status_code |-> status_code, status |-> status,
   result_url |-> result_url, error |-> error, description |-> description]

FailedPoll == PollResponse(FALSE, 0, Missing, Missing, Missing, Missing)
\* the provider rejects the credentials of the status request
UnauthorizedPoll == PollResponse(FALSE, 401, Missing, Missing, Missing, Missing)
\* the provider knows no such job
NotFoundPoll == PollResponse(FALSE, 404, Missing, Missing, Missing, Missing)
StatusOnly(st) == PollResponse(TRUE, 200, st, Missing, Missing, Missing)
DonePoll(url) == PollResponse(TRUE, 200, "done", url, Missing, Missing)
ErrorPoll(error, description) ==
  PollResponse(TRUE, 200, "error", Missing, error, description)

PollResponses ==
  { FailedPoll, UnauthorizedPoll, NotFoundPoll } \cup
  { StatusOnly(st) : st \in {"created", "started", "rejected", Missing} } \cup
  { DonePoll(u) : u \in {"https://d-id/result.mp4", "", Missing} } \cup
  { ErrorPoll("object", "D"), ErrorPoll("object", Missing),
    ErrorPoll(Missing, Missing), ErrorPoll(Null, Missing) }

\* data.get('error', {}).get('description', 'Unknown error')
error_msg(resp) ==
  IF resp.error = Null
  THEN [ok |-> FALSE, text |-> Missing]      \* None.get: AttributeError
  ELSE IF resp.error = "object" /\ resp.description # Missing
  THEN [ok |-> TRUE, text |-> resp.description]
  ELSE [ok |-> TRUE, text |-> "Unknown error"]

Sleep == [do |-> "sleep", url |-> "", exc |-> NoExc]
Return(url) == [do |-> "return", url |-> url, exc |-> NoExc]
Raise(exc) == [do |-> "raise", url |-> "", exc |-> exc]

\* if status == 'done': ...
on_done(resp) ==
  IF resp.result_url \in {Missing, ""}
  THEN Raise(Exc("ValueError", <<"No video URL in completed response">>))
  ELSE Return(resp.result_url)

\* elif status == 'error': ...
on_error(resp) ==
  IF error_msg(resp).ok
  THEN Raise(Exc("ValueError", <<"Video generation failed: ", error_msg(resp).text>>))
  ELSE Raise(Exc("AttributeError", <<"'NoneType' object has no attribute 'get'">>))

\* Faulty variant: a done response without a result_url is polled again.
wait_step_done_without_url_polls(resp) ==
  IF ~resp.ok THEN Sleep
  ELSE IF resp.status = "done"
  THEN IF resp.result_url \in {Missing, ""} THEN Sleep ELSE Return(resp.result_url)
  ELSE IF resp.status = "error" THEN on_error(resp)
  ELSE Sleep

\* Faulty variant: an unrecognized status ends the wait.
wait_step_unknown_raises(resp) ==
  IF ~resp.ok THEN Sleep
  ELSE IF resp.status = "done" THEN on_done(resp)
  ELSE IF resp.status = "error" THEN on_error(resp)
  ELSE IF resp.status \in {"created", "started"} THEN Sleep
  ELSE Raise(Exc("ValueError", <<"Unknown status">>))

\* Faulty variant: no except clause, the RequestException leaves the wait.
wait_step_transport_raises(resp) ==
  IF ~resp.ok THEN Raise(Exc("RequestException", <<"<transport>">>))
  ELSE IF resp.status = "done" THEN on_done(resp)
  ELSE IF resp.status = "error" THEN on_error(resp)
  ELSE Sleep

\* the body of the try of one iteration of the loop of _wait_for_video, and
\* its except clause
wait_step(resp) ==
  IF ~resp.ok THEN Sleep                      \* RequestException: sleep, continue
  ELSE IF resp.status = "done" THEN on_done(resp)
  ELSE IF resp.status = "error" THEN on_error(resp)
  ELSE IF resp.status \in {"created", "started"}
  THEN Sleep
  ELSE Sleep                                  \* unknown status: warn, sleep, continue

\* Faulty variant: the budget is checked one interval late.
timed_out_one_interval_late(elapsed) == elapsed > MaxWaitSeconds + PollInterval

\* elapsed > max_wait_seconds
timed_out(elapsed) == elapsed > MaxWaitSeconds

\* Faulty variant: the exception of _create_talk or _wait_for_video leaves
\* generate_video as it is.
generate_video_error_unwrapped(exc) == exc

\* generate_video: except Exception as e: raise ValueError(f"Failed to generate video: {str(e)}")
generate_video_error(exc) == Exc("ValueError", <<"Failed to generate video: ">> \o exc.msg)

Polling == [state |-> "polling", url |-> "", exc |-> NoExc]
Idle == [state |-> "idle", url |-> "", exc |-> NoExc]

\* Faulty variant: only the status of the answer is handed back.
get_video_status_status_only(resp) ==
  IF resp.ok
  THEN [state |-> "returned", body |-> StatusOnly(resp.status)]
  ELSE [state |-> "raised", body |-> resp]

\* get_video_status: response.json() as it is, or the exception re-raised
get_video_status(resp) ==
  IF resp.ok
  THEN [state |-> "returned", body |-> resp]
  ELSE [state |-> "raised", body |-> resp]

NoStatus == [state |-> "none", body |-> FailedPoll]

\* delete_video: True when the DELETE succeeded, False when it raised
delete_video(ok) == ok

\* The provider's record of a job: none, the body it answers status requests
\* with, or deleted.
NoJob == [status |-> "none"]
Deleted == [status |-> "deleted"]

\* a second request that has not been made, and one that just arrived
NoRun ==
  [pc |-> "idle", articles |-> <<>>, idx |-> 0, summarized_articles |-> <<>>,
   script |-> <<>>, talk_id |-> Missing, submits |-> 0, polls |-> 0, clock |-> 0,
   wait_result |-> Idle, response |-> NoResponse]
Arrived == [NoRun EXCEPT !.pc = "start"]

----------------------------------------------------------------------------
(* The run: app/main.py, generate_news_video and event_generator *)

\* the request arrives at one of the two endpoints
InitLocals ==
  /\ mode \in {"blocking", "progressive"}
  /\ pc = "start"
  /\ articles = <<>>
  /\ idx = 0
  /\ summarized_articles = <<>>
  /\ summarizer_calls = <<>>
  /\ summarize_outcomes = <<>>
  /\ composer_calls = 0
  /\ script = <<>>
  /\ talk_id = Missing
  /\ submits = 0
  /\ polls = 0
  /\ poll_ids = {}
  /\ clock = 0
  /\ poll_failed = FALSE
  /\ wait_result = Idle
  /\ events = <<>>
  /\ stream_closed = FALSE
  /\ response = NoResponse

InitRun == env \in Environments /\ InitLocals

\* no job at the provider, no status asked, nothing deleted, a reader on the
\* stream, the list of log_capturer as LogCapture.__init__ leaves it, and
\* no call of scrape_articles followed
InitWorld ==
  /\ remote = NoJob
  /\ status_result = NoStatus
  /\ deletes = 0
  /\ consumer = "open"
  /\ log_capturer = <<>>
  /\ scraper = NoScrape

\* one request
Init == InitRun /\ InitWorld /\ run2 = NoRun

\* Step 1: scraper.scrape_articles(num_articles=5) and the check of its result
Scrape ==
  /\ pc = "start"
  /\ LET arts == scrape_articles(env.web, NumArticles)
         pre == <<Log("Initializing generation pipeline...", 0, 0),
                  Log("Step 1: Scraping news articles from multiple sources...", 0, 10)>>
     IN IF arts = <<>>
        THEN /\ Fail(EmptyStageExc(mode, "scrape"),
                     pre \o <<Log("Error: Failed to scrape articles", 0, 10)>>)
             /\ articles' = articles
        ELSE /\ articles' = arts
             /\ events' = Emit(pre \o
                  <<Log("Successfully scraped articles", Len(arts), 25),
                    Log("Step 2: Summarizing articles with AI...", 0, 30)>>)
             /\ pc' = "summarize"
             /\ UNCHANGED <<stream_closed, response>>
  /\ UNCHANGED <<env, mode, idx, summarized_articles, summarizer_calls,
                 summarize_outcomes, composer_calls,
                 script, talk_id, submits, polls, poll_ids, clock, poll_failed,
                 wait_result>>

\* Faulty variant: the run is given up as soon as one article is lost.
no_summaries_any_lost(summarized) == Len(summarized) < Len(articles)

\* if not summarized_articles
no_summaries(summarized) == summarized = <<>>

\* Faulty variant: insert(0, ...) in place of append.
append_summary_front(summarized, article, summary) ==
  <<[title |-> article.title, url |-> article.url, summary |-> summary]>> \o summarized

\* summarized_articles.append({...}) after a successful summarize_article
append_summary(summarized, article, summary) ==
  Append(summarized, [title |-> article.title, url |-> article.url, summary |-> summary])

\* Step 2: one iteration of the loop over the articles
SummarizeWith(llm) ==
  /\ pc = "summarize"
  /\ idx < Len(articles)
  /\ LET article == articles[idx + 1]
           r == summarize_article(article, llm)
           attempt == Log("Summarizing article", idx + 1, SummarizeProgress(idx))
           skipped == Log("Skipped article", article.title.id, SummarizeProgress(idx))
       IN /\ summarizer_calls' = Append(summarizer_calls, article.title)
          /\ summarize_outcomes' = Append(summarize_outcomes, r.ok)
          /\ IF r.ok
             THEN /\ summarized_articles' = append_summary(summarized_articles, article, r.summary)
                  /\ events' = Emit(<<attempt>>)
             ELSE /\ summarized_articles' = summarized_articles
                  /\ events' = Emit(<<attempt, skipped>>)
  /\ idx' = idx + 1
  /\ UNCHANGED <<env, mode, pc, articles, composer_calls, script, talk_id, submits, polls,
                 poll_ids, clock, poll_failed, wait_result, stream_closed, response>>

Summarize == \E llm \in LLMAnswers(env.settings) : SummarizeWith(llm)

\* The check after the loop, and step 3: script_gen.generate_script(...)
Compose ==
  /\ pc = "summarize"
  /\ idx = Len(articles)
  /\ IF no_summaries(summarized_articles)
     THEN /\ Fail(EmptyStageExc(mode, "summarize"),
                  <<Log("Error: No articles could be summarized", 0, 50)>>)
          /\ UNCHANGED <<script, composer_calls>>
     ELSE LET s == generate_script(summarized_articles)
              pre == <<Log("Successfully summarized articles", Len(summarized_articles), 55),
                       Log("Step 3: Generating professional news script...", 0, 60)>>
          IN /\ composer_calls' = composer_calls + 1
             /\ script' = s
             /\ IF s = <<>>
                THEN Fail(EmptyStageExc(mode, "script"),
                          pre \o <<Log("Error: Failed to generate script", 0, 60)>>)
                ELSE /\ events' = Emit(pre \o
                          <<Log("Generated script", Len(s), 70),
                            Log("Step 4: Creating avatar video (this may take a moment)...", 0, 75)>>)
                     /\ pc' = "render"
                     /\ UNCHANGED <<stream_closed, response>>
  /\ UNCHANGED <<env, mode, articles, idx, summarized_articles, summarizer_calls,
                 summarize_outcomes, talk_id,
                 submits, polls, poll_ids, clock, poll_failed, wait_result>>

\* Step 4, first half: avatar_gen.generate_video(script) up to _create_talk
CreateTalkWith(resp) ==
  /\ pc = "render"
  /\ submits' = submits + 1
  /\ LET r == create_talk(resp)
     IN IF r.ok
        THEN /\ talk_id' = r.talk_id
             /\ wait_result' = Polling
             /\ pc' = "wait"
             /\ UNCHANGED <<events, stream_closed, response>>
        ELSE /\ Fail(generate_video_error(r.exc), <<>>)
             /\ UNCHANGED <<talk_id, wait_result>>
  /\ clock' = 0
  /\ UNCHANGED <<env, mode, articles, idx, summarized_articles, summarizer_calls,
                 summarize_outcomes, composer_calls, script, polls, poll_ids, poll_failed>>

CreateTalk == \E resp \in SubmitAnswers(env.settings) : CreateTalkWith(resp)

\* The end of a successful run: the check of video_url, the last events, the response
Finish(url) ==
  IF url = ""
  THEN Fail(EmptyStageExc(mode, "render"),
            <<Log("Error: Failed to generate avatar video", 0, 75)>>)
  ELSE /\ pc' = "end"
       /\ IF mode = "progressive"
          THEN /\ events' = events \o
                    <<Log("Avatar video generated successfully!", 0, 95),
                      CompleteEvent(script, url, summarized_articles)>>
               /\ stream_closed' = TRUE
               /\ response' = response
          ELSE /\ response' = NewsVideoResponse(script, url, summarized_articles)
               /\ UNCHANGED <<events, stream_closed>>

\* Faulty variant: a wait that ran out of time submits the script again.
WaitTimeout_resubmit ==
  /\ pc = "wait"
  /\ timed_out(clock)
  /\ pc' = "render"
  /\ wait_result' = Idle
  /\ clock' = 0
  /\ UNCHANGED <<env, mode, articles, idx, summarized_articles, summarizer_calls,
                 summarize_outcomes, composer_calls, script, talk_id, submits, polls,
                 poll_ids, poll_failed, events, stream_closed, response>>

\* _wait_for_video: the timeout check at the head of the loop fires
WaitTimeout ==
  /\ pc = "wait"
  /\ timed_out(clock)
  /\ wait_result' = [state |-> "raised", url |-> "",
                     exc |-> Exc("TimeoutError", <<"Video generation exceeded timeout">>)]
  /\ Fail(generate_video_error(wait_result'.exc), <<>>)
  /\ clock' = 0
  /\ UNCHANGED <<env, mode, articles, idx, summarized_articles, summarizer_calls,
                 summarize_outcomes, composer_calls, script, talk_id, submits, polls, poll_ids, poll_failed>>

\* _wait_for_video: one iteration of the loop that issues the status request;
\* the request answers resp after d time units
PollWith(resp, d) ==
  /\ pc = "wait"
  /\ ~timed_out(clock)
  /\ polls' = polls + 1
  /\ poll_ids' = poll_ids \cup {talk_id}
  /\ poll_failed' = (poll_failed \/ ~resp.ok)
  /\ LET step == wait_step(resp)
     IN CASE step.do = "sleep" ->
               /\ clock' = clock + d + PollInterval
               /\ UNCHANGED <<pc, wait_result, events, stream_closed, response>>
          [] step.do = "return" ->
               /\ wait_result' = [state |-> "returned", url |-> step.url, exc |-> NoExc]
               /\ clock' = 0
               /\ Finish(step.url)
          [] step.do = "raise" ->
               /\ wait_result' = [state |-> "raised", url |-> "", exc |-> step.exc]
               /\ clock' = 0
               /\ Fail(generate_video_error(step.exc), <<>>)
  /\ UNCHANGED <<env, mode, articles, idx, summarized_articles, summarizer_calls,
                 summarize_outcomes, composer_calls, script, talk_id, submits>>

Poll == \E resp \in PollResponses, d \in env.latency : PollWith(resp, d)

\* a step of the run alone: nothing around it moves
Alone == UNCHANGED <<world_vars, run2>>

Next ==
  \/ Scrape /\ Alone
  \/ Summarize /\ Alone
  \/ Compose /\ Alone
  \/ CreateTalk /\ Alone
  \/ WaitTimeout /\ Alone
  \/ Poll /\ Alone

Spec == Init /\ [][Next]_vars

----------------------------------------------------------------------------
(* The status requests of app/avatar.py against a provider that keeps the
   job: the run as above, with the job created by the submission, moved by
   the provider along its lifecycle, read by the status requests of the wait
   and of get_video_status, and removed by delete_video. *)

\* What the provider answers a status request with, given its record of the
\* job: the body of the job it holds, 404 when it holds none, and at any
\* time no answer or a rejection of the credentials.
StatusAnswers(job) ==
  { FailedPoll, UnauthorizedPoll } \cup
  (IF job.status \in {"none", "deleted"} THEN { NotFoundPoll } ELSE { job })

TerminalJob(job) == job.status \in {"done", "error"}

\* the lifecycle of a job: Created -> Started -> Done | Error, the terminal
\* states left by no transition
LifecycleNext(job) ==
  CASE job.status = "created" -> { StatusOnly("started") }
    [] job.status = "started" ->
         { DonePoll("https://d-id/result.mp4"), ErrorPoll("object", "D") }
    [] OTHER -> {}

ProviderStep ==
  /\ \E job \in LifecycleNext(remote) : remote' = job
  /\ UNCHANGED <<run_vars, status_result, deletes, consumer, log_capturer, scraper, run2>>

\* generate_video up to _create_talk, the provider creating the job it accepts
Submit ==
  /\ \E resp \in SubmitAnswers(env.settings) :
       /\ CreateTalkWith(resp)
       /\ remote' = IF create_talk(resp).ok THEN StatusOnly("created") ELSE remote
  /\ UNCHANGED <<status_result, deletes, consumer, log_capturer, scraper, run2>>

\* one iteration of the loop of _wait_for_video, answered from the job
PollJob ==
  /\ \E resp \in StatusAnswers(remote), d \in env.latency : PollWith(resp, d)
  /\ Alone

\* get_video_status(talk_id), by whoever holds the id of the job
GetVideoStatusWith(resp) ==
  /\ talk_id \notin {Missing, ""}
  /\ status_result' = get_video_status(resp)
  /\ UNCHANGED <<run_vars, remote, deletes, consumer, log_capturer, scraper, run2>>

GetVideoStatus == \E resp \in StatusAnswers(remote) : GetVideoStatusWith(resp)

\* delete_video(talk_id), by whoever holds the id of the job
DeleteVideo ==
  /\ talk_id \notin {Missing, ""}
  /\ deletes < MaxDeletes
  /\ deletes' = deletes + 1
  /\ \E ok \in BOOLEAN :
       remote' = IF delete_video(ok) /\ remote.status # "none" THEN Deleted ELSE remote
  /\ UNCHANGED <<run_vars, status_result, consumer, log_capturer, scraper, run2>>

StatusEnvironment == [web |-> Web(1), latency |-> 0..0, settings |-> Configured]

InitStatus == Init /\ env = StatusEnvironment

NextStatus ==
  \/ Scrape /\ Alone
  \/ Summarize /\ Alone
  \/ Compose /\ Alone
  \/ Submit
  \/ WaitTimeout /\ Alone
  \/ PollJob
  \/ ProviderStep
  \/ GetVideoStatus
  \/ DeleteVideo

SpecStatus == InitStatus /\ [][NextStatus]_vars

----------------------------------------------------------------------------
(* The reader of the stream: the progressive run as above, against a
   provider that keeps the job, with a reader that may close the stream at
   any time. event_generator has no finally clause and catches Exception
   only: when the server closes the generator of a closed stream, which it
   can do where the generator is suspended, at a yield or an await between
   the stages, the generator just ends. generate_video is one synchronous
   call, so the generator is never suspended while it waits for the video. *)

\* the reader closes its side of the stream
CloseConsumer ==
  /\ mode = "progressive"
  /\ consumer = "open"
  /\ ~stream_closed
  /\ consumer' = "closed"
  /\ UNCHANGED <<run_vars, remote, status_result, deletes, log_capturer, scraper, run2>>

\* Faulty variant: the generator deletes the video on its way out.
Abandon_with_cleanup ==
  /\ mode = "progressive"
  /\ consumer = "closed"
  /\ pc \in {"start", "summarize", "render"}
  /\ pc' = "abandoned"
  /\ stream_closed' = TRUE
  /\ deletes' = deletes + 1
  /\ UNCHANGED <<env, mode, articles, idx, summarized_articles, summarizer_calls,
                 summarize_outcomes, composer_calls, script, talk_id, submits, polls,
                 poll_ids, clock, poll_failed, wait_result, events, response,
                 remote, status_result, consumer, log_capturer, scraper, run2>>

\* the generator of a closed stream is closed where it is suspended
Abandon ==
  /\ mode = "progressive"
  /\ consumer = "closed"
  /\ pc \in {"start", "summarize", "render"}
  /\ pc' = "abandoned"
  /\ stream_closed' = TRUE
  /\ UNCHANGED <<env, mode, articles, idx, summarized_articles, summarizer_calls,
                 summarize_outcomes, composer_calls, script, talk_id, submits, polls,
                 poll_ids, clock, poll_failed, wait_result, events, response,
                 remote, status_result, deletes, consumer, log_capturer, scraper, run2>>

ConsumerEnvironment == [web |-> Web(2), latency |-> 0..0, settings |-> Configured]

InitConsumer == Init /\ mode = "progressive" /\ env = ConsumerEnvironment

NextConsumer ==
  \/ Scrape /\ Alone
  \/ Summarize /\ Alone
  \/ Compose /\ Alone
  \/ Submit
  \/ WaitTimeout /\ Alone
  \/ PollJob
  \/ ProviderStep
  \/ CloseConsumer
  \/ Abandon

SpecConsumer == InitConsumer /\ [][NextConsumer]_vars

----------------------------------------------------------------------------
(* A second request, handled by generate_news_video (main.py, 242-345). Its
   locals are the fields of run2; it builds its own NewsScraper,
   NewsSummarizer, ScriptGenerator and AvatarVideoGenerator, whose methods
   are the operators above. *)

\* except HTTPException: raise
Raise2(detail) == [run2 EXCEPT !.pc = "end", !.response = HTTPException(detail)]

\* except Exception as e: raise HTTPException(500, f"Internal server error: {e}")
InternalServerError(exc) == <<"Internal server error: ">> \o exc.msg

\* Step 1
Scrape2 ==
  /\ run2.pc = "start"
  /\ LET arts == scrape_articles(env.web, NumArticles)
     IN run2' = IF arts = <<>>
                THEN Raise2(<<"Failed to scrape articles. Please try again.">>)
                ELSE [run2 EXCEPT !.pc = "summarize", !.articles = arts]

\* Faulty variant: a failed summary ends the request.
Summarize2With_abort_on_failure(llm) ==
  /\ run2.pc = "summarize"
  /\ run2.idx < Len(run2.articles)
  /\ LET article == run2.articles[run2.idx + 1]
         r == summarize_article(article, llm)
     IN run2' = IF r.ok
                THEN [run2 EXCEPT
                        !.idx = @ + 1,
                        !.summarized_articles =
                           Append(@, [title |-> article.title, url |-> article.url,
                                      summary |-> r.summary])]
                ELSE Raise2(InternalServerError(r.exc))

\* Step 2: one iteration of the loop over the articles
Summarize2With(llm) ==
  /\ run2.pc = "summarize"
  /\ run2.idx < Len(run2.articles)
  /\ LET article == run2.articles[run2.idx + 1]
         r == summarize_article(article, llm)
     IN run2' = [run2 EXCEPT
                   !.idx = @ + 1,
                   !.summarized_articles =
                      IF r.ok
                      THEN Append(@, [title |-> article.title, url |-> article.url,
                                      summary |-> r.summary])
                      ELSE @]

\* Faulty variant: the script is composed from the list of the other request.
Compose2_shared_list ==
  /\ run2.pc = "summarize"
  /\ run2.idx = Len(run2.articles)
  /\ run2' = IF run2.summarized_articles = <<>>
             THEN Raise2(<<"Failed to summarize articles. Please check API credentials.">>)
             ELSE [run2 EXCEPT !.pc = "render",
                               !.script = generate_script(summarized_articles)]

\* The check after the loop, and step 3
Compose2 ==
  /\ run2.pc = "summarize"
  /\ run2.idx = Len(run2.articles)
  /\ run2' = IF run2.summarized_articles = <<>>
             THEN Raise2(<<"Failed to summarize articles. Please check API credentials.">>)
             ELSE LET s == generate_script(run2.summarized_articles)
                  IN IF s = <<>>
                     THEN [Raise2(<<"Failed to generate script">>) EXCEPT !.script = s]
                     ELSE [run2 EXCEPT !.pc = "render", !.script = s]

\* Step 4, first half: generate_video up to _create_talk
CreateTalk2With(resp) ==
  /\ run2.pc = "render"
  /\ LET r == create_talk(resp)
     IN run2' = IF r.ok
                THEN [run2 EXCEPT !.pc = "wait", !.submits = @ + 1,
                                  !.talk_id = r.talk_id, !.wait_result = Polling,
                                  !.clock = 0]
                ELSE [Raise2(InternalServerError(generate_video_error(r.exc)))
                        EXCEPT !.submits = @ + 1]

\* _wait_for_video: the timeout check at the head of the loop fires
WaitTimeout2 ==
  /\ run2.pc = "wait"
  /\ timed_out(run2.clock)
  /\ LET exc == Exc("TimeoutError", <<"Video generation exceeded timeout">>)
     IN run2' = [Raise2(InternalServerError(generate_video_error(exc))) EXCEPT
                   !.wait_result = [state |-> "raised", url |-> "", exc |-> exc],
                   !.clock = 0]

\* _wait_for_video: one iteration of the loop that issues the status
\* request, and the end of the request when the wait is over
Poll2With(resp, d) ==
  /\ run2.pc = "wait"
  /\ ~timed_out(run2.clock)
  /\ LET step == wait_step(resp)
     IN run2' =
          CASE step.do = "sleep" ->
                 [run2 EXCEPT !.polls = @ + 1, !.clock = @ + d + PollInterval]
            [] step.do = "return" ->
                 [(IF step.url = ""
                   THEN Raise2(<<"Failed to generate avatar video. Please check API credentials.">>)
                   ELSE [run2 EXCEPT
                           !.pc = "end",
                           !.response = NewsVideoResponse(run2.script, step.url,
                                                          run2.summarized_articles)])
                    EXCEPT !.polls = @ + 1, !.clock = 0,
                           !.wait_result = [state |-> "returned", url |-> step.url,
                                            exc |-> NoExc]]
            [] step.do = "raise" ->
                 [Raise2(InternalServerError(generate_video_error(step.exc))) EXCEPT
                    !.polls = @ + 1, !.clock = 0,
                    !.wait_result = [state |-> "raised", url |-> "", exc |-> step.exc]]

\* The two handlers side by side: a progressive request and a blocking one
\* that meet the same world (a web of up to three articles) and get the same
\* answers from the collaborators, call by call.
PairEnvironments == { e \in Environments : Len(e.web[1]) <= 3 }

InitPair ==
  /\ env \in PairEnvironments
  /\ InitLocals
  /\ mode = "progressive"
  /\ InitWorld
  /\ run2 = Arrived

NextPair ==
  \/ Scrape /\ Scrape2 /\ UNCHANGED world_vars
  \/ \E llm \in LLMAnswers(env.settings) :
       SummarizeWith(llm) /\ Summarize2With(llm) /\ UNCHANGED world_vars
  \/ Compose /\ Compose2 /\ UNCHANGED world_vars
  \/ \E resp \in SubmitAnswers(env.settings) :
       CreateTalkWith(resp) /\ CreateTalk2With(resp) /\ UNCHANGED world_vars
  \/ WaitTimeout /\ WaitTimeout2 /\ UNCHANGED world_vars
  \/ \E resp \in PollResponses, d \in env.latency :
       PollWith(resp, d) /\ Poll2With(resp, d) /\ UNCHANGED world_vars

SpecPair == InitPair /\ [][NextPair]_vars

\* Two requests served at once, their steps interleaved in any order, each
\* with its own answers from the collaborators; the provider is slow, a
\* status request taking as long as its timeout allows.
ConcurrentEnvironment ==
  [web |-> Web(2), latency |-> {RequestTimeout}, settings |-> Configured]

InitConcurrent ==
  env = ConcurrentEnvironment /\ InitLocals /\ InitWorld /\ run2 = Arrived

\* a step of the second request alone
Alone2 == UNCHANGED <<run_vars, world_vars>>

NextConcurrent ==
  \/ Scrape /\ Alone
  \/ Summarize /\ Alone
  \/ Compose /\ Alone
  \/ CreateTalk /\ Alone
  \/ WaitTimeout /\ Alone
  \/ Poll /\ Alone
  \/ Scrape2 /\ Alone2
  \/ \E llm \in LLMAnswers(env.settings) : Summarize2With(llm) /\ Alone2
  \/ Compose2 /\ Alone2
  \/ \E resp \in SubmitAnswers(env.settings) : CreateTalk2With(resp) /\ Alone2
  \/ WaitTimeout2 /\ Alone2
  \/ \E resp \in PollResponses, d \in env.latency : Poll2With(resp, d) /\ Alone2

SpecConcurrent == InitConcurrent /\ [][NextConcurrent]_vars

----------------------------------------------------------------------------
(* app/scraper.py, NewsScraper.scrape_articles followed step by step: the
   loop over settings.NEWS_SOURCES and, inside it, the loop over the links
   of one source, with every request for a homepage and for a page
   recorded. *)

\* the rest of the world stands still
ScraperAlone ==
  UNCHANGED <<run_vars, remote, status_result, deletes, consumer, log_capturer, run2>>

\* scrape_articles(num_articles) is called: articles = [], sources_tried = 0
StartScrape ==
  /\ scraper.pc = "idle"
  /\ \E n \in Wanted :
       scraper' = [NoScrape EXCEPT !.pc = "source", !.num_articles = n]
  /\ ScraperAlone

\* for source_url in settings.NEWS_SOURCES, past the break:
\* article_links = self._get_article_links(source_url)
FetchSource ==
  /\ scraper.pc = "source"
  /\ scraper.sources_tried < Len(env.web)
  /\ Len(scraper.articles) < scraper.num_articles
  /\ LET j == scraper.sources_tried + 1
     IN scraper' = [scraper EXCEPT !.pc = "link",
                                   !.sources_tried = j,
                                   !.source_fetches = Append(@, j),
                                   !.article_links = get_article_links(env.web[j]),
                                   !.link = 0]
  /\ ScraperAlone

\* Faulty variant: a link whose extraction raises ends the loop over the
\* links of its source.
FetchLink_abort_on_failure ==
  /\ scraper.pc = "link"
  /\ scraper.link < Len(scraper.article_links)
  /\ Len(scraper.articles) < scraper.num_articles
  /\ LET page == scraper.article_links[scraper.link + 1]
         article_data == extract_article(page)
     IN scraper' = [scraper EXCEPT
                      !.link = @ + 1,
                      !.link_fetches = Append(@, page.id),
                      !.pc = IF page.raises THEN "source" ELSE @,
                      !.articles = IF ~page.raises /\ is_valid_article(article_data)
                                   THEN Append(@, article_data)
                                   ELSE @]
  /\ ScraperAlone

\* for link in article_links, past the break: _extract_article(link), the
\* validity check and the append; an exception is logged and the loop goes on
FetchLink ==
  /\ scraper.pc = "link"
  /\ scraper.link < Len(scraper.article_links)
  /\ Len(scraper.articles) < scraper.num_articles
  /\ LET page == scraper.article_links[scraper.link + 1]
         article_data == extract_article(page)
     IN scraper' = [scraper EXCEPT
                      !.link = @ + 1,
                      !.link_fetches = Append(@, page.id),
                      !.articles = IF ~page.raises /\ is_valid_article(article_data)
                                   THEN Append(@, article_data)
                                   ELSE @]
  /\ ScraperAlone

\* the loop over the links ends: no link is left, or the break at its head
LeaveSource ==
  /\ scraper.pc = "link"
  /\ \/ scraper.link = Len(scraper.article_links)
     \/ Len(scraper.articles) >= scraper.num_articles
  /\ scraper' = [scraper EXCEPT !.pc = "source"]
  /\ ScraperAlone

\* the loop over the sources ends, by exhaustion or by the break at its head:
\* return articles[:num_articles]
ReturnArticles ==
  /\ scraper.pc = "source"
  /\ \/ scraper.sources_tried = Len(env.web)
     \/ Len(scraper.articles) >= scraper.num_articles
  /\ scraper' = [scraper EXCEPT !.pc = "done",
                                !.result = Take(scraper.articles, scraper.num_articles)]
  /\ ScraperAlone

ScrapeEnvironments ==
  { [web |-> w, latency |-> 0..0, settings |-> Configured] : w \in ScrapeWebs }

InitScrape ==
  /\ env \in ScrapeEnvironments
  /\ InitLocals
  /\ InitWorld
  /\ run2 = NoRun

NextScrape ==
  \/ StartScrape
  \/ FetchSource
  \/ FetchLink
  \/ LeaveSource
  \/ ReturnArticles

SpecScrape == InitScrape /\ [][NextScrape]_vars

----------------------------------------------------------------------------
(* Vocabulary of the properties *)

Last(seq) == seq[Len(seq)]

IsTerminal(e) == e.type \in {"complete", "error"}

Ended == pc = "end"

Succeeded ==
  /\ Ended
  /\ IF mode = "progressive" THEN Last(events).type = "complete"
     ELSE response.kind = "success"

Failed ==
  /\ Ended
  /\ IF mode = "progressive" THEN Last(events).type = "error"
     ELSE response.kind = "http_error"

\* the message the caller receives with a failure
FailureMessage ==
  IF mode = "progressive" THEN Last(events).message ELSE response.detail

Contains(msg, token) == \E i \in 1..Len(msg) : msg[i] = token

\* The stage a failure message names.
StageTag(msg) ==
  CASE Contains(msg, "Failed to scrape articles")
       \/ Contains(msg, "Failed to scrape articles. Please try again.") -> "scrape"
    [] Contains(msg, "Failed to summarize articles")
       \/ Contains(msg, "Failed to summarize articles. Please check API credentials.") -> "summarize"
    [] Contains(msg, "Failed to generate script") -> "script"
    [] Contains(msg, "Failed to generate video: ")
       \/ Contains(msg, "Failed to generate avatar video")
       \/ Contains(msg, "Failed to generate avatar video. Please check API credentials.") -> "render"
    [] OTHER -> "none"

\* The error kinds, by the text of the ValueError raised.
MessageKind(msg) ==
  CASE Contains(msg, "Video generation failed: ") -> "RenderError"
    [] Contains(msg, "Invalid OpenAI API key") -> "AuthError"
    [] Contains(msg, "No video URL in completed response") -> "ProtocolError"
    [] Contains(msg, "No talk ID returned from D-ID API") -> "ProtocolError"
    [] Contains(msg, "D-ID authentication failed. Check API key.") -> "AuthError"
    [] Contains(msg, "D-ID API error: ") -> "SubmissionError"
    [] OTHER -> "other"

ErrorKind(exc) ==
  CASE exc.type = "TimeoutError" -> "TimeoutError"
    [] exc.type = "ValueError" -> MessageKind(exc.msg)
    [] OTHER -> "other"

\* the events that carry a progress value
ProgressEvents == SelectSeq(events, LAMBDA e : e.type # "error")

----------------------------------------------------------------------------
(* C1: in progressive mode the event sequence of every run ends with exactly
   one terminal event, a complete event or an error event: a terminal event
   is always the last event emitted (so there is one at most and nothing
   follows it), an ended run has emitted one, the stream is closed exactly
   when it has been emitted, and a run that has not ended can take a step. *)
C1_OneTerminalEvent ==
  mode = "progressive" =>
    /\ \A i \in 1..Len(events) : IsTerminal(events[i]) => i = Len(events)
    /\ Ended => (events # <<>> /\ IsTerminal(Last(events)))
    /\ stream_closed <=> (events # <<>> /\ IsTerminal(Last(events)))
    /\ stream_closed => Ended
    /\ ~Ended => ENABLED Next

\* a progressive run that failed while polling, after log events
C1_Witness ==
  /\ mode = "progressive"
  /\ Ended
  /\ Last(events).type = "error"
  /\ polls >= 2
  /\ Len(events) >= 8

(* C2: in progressive mode the progress values of the events emitted so far
   (every event but the error event, which carries none) are all in 0..100
   and never decrease along the sequence. *)
C2_ProgressMonotone ==
  mode = "progressive" =>
    /\ \A i \in 1..Len(ProgressEvents) : ProgressEvents[i].progress \in 0..100
    /\ \A i \in 1..Len(ProgressEvents) : \A j \in i..Len(ProgressEvents) :
         ProgressEvents[i].progress <= ProgressEvents[j].progress

\* five articles, the last of them skipped, and the run completed
C2_Witness ==
  /\ mode = "progressive"
  /\ Len(articles) = NumArticles
  /\ Succeeded
  /\ \E i \in 1..Len(events) :
       /\ events[i].type = "log"
       /\ events[i].message = "Skipped article"
       /\ events[i].progress = 50
  /\ Last(events).progress = 100

----------------------------------------------------------------------------
(* The render job: submit and wait *)

Returned(url) == [state |-> "returned", url |-> url, exc |-> NoExc]

WaitOver == wait_result.state \in {"returned", "raised"}

\* a status request that is answered with status st
AnsweredWith(resp, st) == resp.ok /\ resp.status = st

HasUrl(resp) == resp.result_url \notin {Missing, ""}

(* C3: a status request issued within the budget and answered `done` ends
   the wait at once: with a result_url X the wait returns X, without one it
   raises the ValueError 'No video URL in completed response' (the protocol
   error); and once the wait is over no further status request is issued. *)
C3_DoneEndsWait ==
  /\ [][\A resp \in PollResponses : \A d \in env.latency :
          (PollWith(resp, d) /\ AnsweredWith(resp, "done")) =>
             /\ polls' = polls + 1
             /\ IF HasUrl(resp)
                THEN wait_result' = Returned(resp.result_url)
                ELSE /\ wait_result'.state = "raised"
                     /\ ErrorKind(wait_result'.exc) = "ProtocolError"
                     /\ wait_result'.exc.msg = <<"No video URL in completed response">>]_vars
  /\ [][WaitOver => (polls' = polls /\ wait_result' = wait_result)]_vars

\* the wait returned the url of a done response after two or more
\* non-terminal ones, and the run delivered it
C3_Witness ==
  /\ wait_result = Returned("https://d-id/result.mp4")
  /\ polls >= 3
  /\ Succeeded
  /\ mode = "blocking"
  /\ response.video_url = "https://d-id/result.mp4"

(* C4: a status request issued within the budget and answered `error` ends
   the wait with a RenderError (the ValueError 'Video generation failed: ...')
   that carries the provider's description, or the default 'Unknown error'
   when the payload gives none, whatever the shape of the payload. *)
C4_ErrorEndsWaitWithRenderError ==
  [][\A resp \in PollResponses : \A d \in env.latency :
       (PollWith(resp, d) /\ AnsweredWith(resp, "error")) =>
          /\ wait_result'.state = "raised"
          /\ ErrorKind(wait_result'.exc) = "RenderError"
          /\ wait_result'.exc.msg =
               <<"Video generation failed: ",
                 IF resp.error = "object" /\ resp.description # Missing
                 THEN resp.description ELSE "Unknown error">>]_vars


NonTerminalStatuses == {"created", "started", "rejected", Missing}

(* C5: a status request answered with a non-terminal status (created,
   started, an unrecognized status, no status) makes the wait sleep one
   interval and poll again; an unrecognized or missing status has exactly
   the effect of `created`; and when the budget is exceeded with the wait
   still polling, the wait raises TimeoutError without a further request,
   TimeoutError being raised in no other situation. *)
C5_NonTerminalUntilTimeout ==
  /\ [][\A d \in env.latency : \A st \in NonTerminalStatuses :
          PollWith(StatusOnly(st), d) =>
             /\ wait_result' = Polling
             /\ pc' = "wait"
             /\ clock' = clock + d + PollInterval]_vars
  /\ [][\A d \in env.latency : \A st \in NonTerminalStatuses :
          PollWith(StatusOnly(st), d) <=> PollWith(StatusOnly("created"), d)]_vars
  /\ [][(pc = "wait" /\ clock > MaxWaitSeconds) =>
          /\ wait_result'.state = "raised"
          /\ ErrorKind(wait_result'.exc) = "TimeoutError"
          /\ polls' = polls]_vars
  /\ [][(wait_result.state = "polling" /\ wait_result'.state = "raised"
          /\ ErrorKind(wait_result'.exc) = "TimeoutError") => clock > MaxWaitSeconds]_vars

\* a wait of 61 status requests, none of which failed or was terminal, that
\* ended in TimeoutError
C5_Witness ==
  /\ wait_result.state = "raised"
  /\ ErrorKind(wait_result.exc) = "TimeoutError"
  /\ ~poll_failed
  /\ polls = 61
  /\ Failed

(* C6: a status request that fails in transport is not propagated: the wait
   keeps polling after the same fixed interval and the caller sees nothing;
   after failed requests a `done` response still yields its result_url, and
   the budget being exceeded still ends the wait in TimeoutError. *)
C6_TransportFailureRetried ==
  /\ [][\A d \in env.latency :
          PollWith(FailedPoll, d) =>
             /\ wait_result' = Polling
             /\ pc' = "wait"
             /\ clock' = clock + d + PollInterval
             /\ events' = events
             /\ stream_closed' = stream_closed
             /\ response' = response]_vars
  /\ [][\A resp \in PollResponses : \A d \in env.latency :
          (poll_failed /\ PollWith(resp, d) /\ AnsweredWith(resp, "done") /\ HasUrl(resp)) =>
             wait_result' = Returned(resp.result_url)]_vars
  /\ [][(pc = "wait" /\ poll_failed /\ clock > MaxWaitSeconds) =>
          ErrorKind(wait_result'.exc) = "TimeoutError"]_vars

\* a run that delivered the video although status requests had failed
C6_Witness ==
  /\ poll_failed
  /\ polls >= 3
  /\ wait_result.state = "returned"
  /\ Succeeded

\* the answers of POST /talks that carry a job identifier
Accepted(resp) == resp.transport_ok /\ resp.status_code = 200 /\ resp.id \notin {Missing, ""}

(* C7: the submission makes one POST and has four outcomes: the job
   identifier when the answer holds a non-empty id; the authentication error
   on 401; the submission error on any other transport or HTTP failure; the
   protocol error when the answer succeeds without an id. A run whose
   submission failed has issued no status request. *)
C7_SubmitOutcomes ==
  /\ [][\A resp \in SubmitResponses :
          CreateTalkWith(resp) =>
             /\ submits' = submits + 1
             /\ IF Accepted(resp)
                THEN /\ talk_id' = resp.id
                     /\ pc' = "wait"
                     /\ wait_result' = Polling
                ELSE /\ Failed'
                     /\ talk_id' = Missing
                     /\ MessageKind(FailureMessage') =
                          (IF resp.transport_ok /\ resp.status_code = 401 THEN "AuthError"
                           ELSE IF ~resp.transport_ok \/ resp.status_code # 200
                                THEN "SubmissionError"
                           ELSE "ProtocolError")]_vars
  /\ [](talk_id = Missing => (polls = 0 /\ poll_ids = {}))
  /\ [](submits <= 1)

\* a run that ended on a 401 answer to the submission
C7_Witness ==
  /\ Failed
  /\ submits = 1
  /\ polls = 0
  /\ MessageKind(FailureMessage) = "AuthError"

----------------------------------------------------------------------------
(* The orchestrator *)

RECURSIVE CountFalse(_)
CountFalse(bs) ==
  IF bs = <<>> THEN 0 ELSE (IF Head(bs) THEN 0 ELSE 1) + CountFalse(Tail(bs))

\* the articles of the result delivered to the caller
ResultArticles == IF mode = "progressive" THEN Last(events).articles ELSE response.articles

SummarizeLoopLeft == articles # <<>> /\ pc \in {"render", "wait", "end"}

(* C8: in both modes, once the summarize loop over n >= 1 articles is left
   with k failed summarizations: if k < n the script composer has been
   called once over the n-k remaining articles, the run goes on to the
   render submission, does not fail at 'summarize', and a delivered result
   holds n-k articles; if k = n the run has failed at stage 'summarize'
   with neither the composer nor the render provider invoked. *)
C8_PartialFailurePolicy ==
  SummarizeLoopLeft =>
    LET n == Len(articles)
        k == CountFalse(summarize_outcomes)
    IN /\ Len(summarize_outcomes) = n
       /\ IF k < n
          THEN /\ composer_calls = 1
               /\ Len(summarized_articles) = n - k
               /\ pc \in {"wait", "end"} => submits = 1
               /\ Failed => StageTag(FailureMessage) # "summarize"
               /\ Succeeded => Len(ResultArticles) = n - k
          ELSE /\ Failed
               /\ StageTag(FailureMessage) = "summarize"
               /\ composer_calls = 0
               /\ submits = 0
               /\ polls = 0

\* five articles, two of them lost, a result of three
C8_Witness ==
  /\ mode = "blocking"
  /\ Succeeded
  /\ Len(articles) = 5
  /\ CountFalse(summarize_outcomes) = 2
  /\ Len(response.articles) = 3

\* the {title, url} of the articles whose summarization succeeded, in order
RECURSIVE Kept(_, _)
Kept(arts, outcomes) ==
  IF outcomes = <<>> THEN <<>>
  ELSE (IF Head(outcomes)
        THEN << [title |-> Head(arts).title, url |-> Head(arts).url] >>
        ELSE <<>>) \o Kept(Tail(arts), Tail(outcomes))

(* C9: the summarizer is called once per article, in discovery order (the
   calls so far are the first idx articles, each once; a run that left the
   loop has called it for all of them), and the summarized articles are
   exactly the articles whose call succeeded, in the same order, each with
   the title and url of its article. *)
C9_SummarizedSubsequence ==
  /\ idx <= Len(articles)
  /\ summarizer_calls = [i \in 1..idx |-> articles[i].title]
  /\ Len(summarize_outcomes) = idx
  /\ [i \in 1..Len(summarized_articles) |->
        [title |-> summarized_articles[i].title, url |-> summarized_articles[i].url]]
       = Kept(articles, summarize_outcomes)
  /\ SummarizeLoopLeft => idx = Len(articles)

\* five articles, the second and the fourth lost
C9_Witness ==
  /\ Ended
  /\ summarize_outcomes = <<TRUE, FALSE, TRUE, FALSE, TRUE>>
  /\ Len(summarized_articles) = 3
  /\ summarized_articles[2].url = 3

(* C10: the message of every failed run names the stage that failed:
   'scrape' exactly when no article was scraped, 'summarize' exactly when
   articles were scraped and none summarized, 'script' exactly when the
   composer returned an empty script, 'render' exactly when the script was
   submitted and no video came of it. *)
C10_FailureNamesStage ==
  Failed =>
    LET tag == StageTag(FailureMessage)
    IN /\ tag \in {"scrape", "summarize", "script", "render"}
       /\ tag = "scrape" <=> articles = <<>>
       /\ tag = "summarize" <=> (articles # <<>> /\ summarized_articles = <<>>)
       /\ tag = "script" <=> (composer_calls = 1 /\ script = <<>>)
       /\ tag = "render" <=> (submits = 1 /\ script # <<>>)

\* a blocking run that failed at 'render' by timeout
C10_Witness ==
  /\ mode = "blocking"
  /\ Failed
  /\ ErrorKind(wait_result.exc) = "TimeoutError"
  /\ StageTag(FailureMessage) = "render"

----------------------------------------------------------------------------
(* The result handed to the caller *)

\* what the caller holds when the run has ended: the last event of the
\* stream, or the response of the blocking endpoint
Result == IF mode = "progressive" THEN Last(events) ELSE response

PayloadFields == {"script", "video_url", "articles"}

HasPayload(r) == DOMAIN r \cap PayloadFields # {}

(* C11: no partial result, in both modes. A payload (script, video_url,
   articles) is handed over only by the result of a succeeded run, never by
   an earlier event; a succeeded run has passed all four stages (articles
   scraped, one or more summarized, a non-empty script composed, the job
   submitted and its wait returned) and its result carries that script,
   those summarized articles and the non-empty url the wait returned; a
   failed run hands over a non-empty message and no payload field. *)
C11_NoPartialResult ==
  /\ \A i \in 1..Len(events) : HasPayload(events[i]) => (i = Len(events) /\ Succeeded)
  /\ HasPayload(response) => Succeeded
  /\ Succeeded =>
       /\ articles # <<>>
       /\ summarized_articles # <<>>
       /\ composer_calls = 1
       /\ submits = 1
       /\ talk_id \notin {"", Missing}
       /\ polls >= 1
       /\ wait_result.state = "returned"
       /\ Result.video_url = wait_result.url
       /\ Result.video_url \notin {"", Missing}
       /\ Result.script = script
       /\ Result.script # <<>>
       /\ Result.articles = summarized_articles
       /\ Len(Result.articles) >= 1
  /\ Failed =>
       /\ ~HasPayload(Result)
       /\ FailureMessage # <<>>
       /\ wait_result.state # "returned"

\* a run that failed at the render stage, with script and articles in hand
C11_Witness ==
  /\ Failed
  /\ script # <<>>
  /\ Len(summarized_articles) >= 2
  /\ wait_result.state = "raised"
  /\ ~HasPayload(Result)

----------------------------------------------------------------------------
(* Rejected credentials *)

AuthFailure == Failed /\ MessageKind(FailureMessage) = "AuthError"

RejectedSubmissions ==
  { resp \in SubmitResponses : resp.transport_ok /\ resp.status_code = 401 }

(* C12: a remote call rejected for bad credentials ends the run at once, as
   a failure that reports the authentication error (so that no further call
   to that provider follows): this for a summarizer request, for the render
   submission and for a render status request. *)
C12_AuthRejectionEndsRun ==
  /\ [][SummarizeWith("auth") => AuthFailure']_vars
  /\ [][\A resp \in RejectedSubmissions : CreateTalkWith(resp) => AuthFailure']_vars
  /\ [][\A d \in env.latency : PollWith(UnauthorizedPoll, d) => AuthFailure']_vars

----------------------------------------------------------------------------
(* The script *)

\* the summaries the composer was given
Summaries == [i \in 1..Len(summarized_articles) |-> summarized_articles[i].summary]

Count(seq, x) == Cardinality({i \in 1..Len(seq) : seq[i] = x})

NoBlanks(text) == SelectSeq(text, LAMBDA c : c # " ")

\* the position of the n-th period of a text, 0 when it has fewer
RECURSIVE PeriodAt(_, _, _)
PeriodAt(text, n, from) ==
  IF from > Len(text) THEN 0
  ELSE IF text[from] = "."
       THEN (IF n = 1 THEN from ELSE PeriodAt(text, n - 1, from + 1))
       ELSE PeriodAt(text, n, from + 1)

\* a text made of period-terminated sentences: it ends in a period
Terminated(text) == text # <<>> /\ Last(text) = "."

NumSentences(text) == Count(text, ".")

\* the first two sentences of a terminated text, all of it when it has
\* fewer than three
FirstTwoSentences(text) ==
  IF NumSentences(text) <= 2 THEN text ELSE SubSeq(text, 1, PeriodAt(text, 2, 1))

RECURSIVE Flatten(_)
Flatten(texts) == IF texts = <<>> THEN <<>> ELSE Head(texts) \o Flatten(Tail(texts))

\* the script without its opening and closing lines and the blank after and
\* before them
Headlines(s) == SubSeq(s, 3, Len(s) - 2)

(* C14: the script composed for n >= 1 summarized articles is the opening
   line, the fragments of the n articles in input order, and the closing
   line, the opening and the closing once each: between the two lines stand,
   blanks aside, the first two sentences of each summary in the order of the
   articles; and when every summary is one sentence the script is exactly
   the opening, the summaries and the closing with one blank between them
   (for 'a.' and 'b.': '<opening> a. b. <closing>'). *)
C14_ScriptShape ==
  composer_calls = 1 =>
    /\ Len(Summaries) >= 1
    /\ Len(script) >= 5
    /\ script[1] = Opening /\ script[2] = " "
    /\ script[Len(script)] = Closing /\ script[Len(script) - 1] = " "
    /\ Count(script, Opening) = 1
    /\ Count(script, Closing) = 1
    /\ NoBlanks(Headlines(script)) =
         Flatten([i \in 1..Len(Summaries) |-> NoBlanks(FirstTwoSentences(Summaries[i]))])
    /\ (\A i \in 1..Len(Summaries) : NumSentences(Summaries[i]) = 1) =>
         script = <<Opening>> \o Flatten([i \in 1..Len(Summaries) |-> <<" ">> \o Summaries[i]])
                    \o <<" ", Closing>>

\* the script of the two one-sentence summaries 'a.' and 'b.'
C14_Witness ==
  /\ Summaries = << <<"a", ".">>, <<"b", ".">> >>
  /\ script = <<Opening, " ", "a", ".", " ", "b", ".", " ", Closing>>

(* C15: of every summary made of three or more period-terminated sentences
   the fragment composed is exactly the first two sentences of the summary,
   nothing else, and ends in a period. *)
C15_TwoSentenceFragment ==
  composer_calls = 1 =>
    \A i \in 1..Len(Summaries) :
      (Terminated(Summaries[i]) /\ NumSentences(Summaries[i]) >= 3) =>
        /\ short_summary(Summaries[i]) = FirstTwoSentences(Summaries[i])
        /\ Last(short_summary(Summaries[i])) = "."

----------------------------------------------------------------------------
(* The length of the wait *)

\* floor(max_wait / 5) + 1
MaxPolls == (MaxWaitSeconds \div PollInterval) + 1

(* C20: the wait for the video always terminates. A status request is issued
   only while the elapsed time is at most max_wait_seconds; every request
   that does not end the wait is followed by a sleep of exactly 5 time
   units, so that the elapsed time is at least 5 times the number of
   requests; the timeout fires only past max_wait_seconds and without a
   request; every step of a wait either ends it or issues one more request;
   a wait in progress can always take a step; and the number of requests
   never exceeds floor(max_wait_seconds / 5) + 1, 61 for 300. *)
C20_WaitTerminates ==
  /\ [](/\ polls <= MaxPolls
        /\ MaxPolls = 61
        /\ pc = "wait" => /\ clock >= PollInterval * polls
                          /\ ENABLED (WaitTimeout \/ Poll))
  /\ [][\A resp \in PollResponses : \A d \in env.latency :
          PollWith(resp, d) =>
             /\ clock <= MaxWaitSeconds
             /\ pc' = "wait" => clock' = clock + d + PollInterval]_vars
  /\ [][WaitTimeout => (clock > MaxWaitSeconds /\ polls' = polls /\ pc' = "end")]_vars
  /\ [][pc = "wait" => (pc' # "wait" \/ polls' = polls + 1)]_vars

\* the last request the budget allows, issued at 300 and answered done
C20_Witness ==
  /\ polls = MaxPolls
  /\ wait_result.state = "returned"
  /\ Succeeded

----------------------------------------------------------------------------
(* Configuration *)

ConfigurationError ==
  /\ Failed
  /\ Contains(FailureMessage, "Configuration errors:")

(* C18: the configuration is validated before a run starts: a run whose
   summarizer credential or render credential is empty makes no remote call
   (it fetches no page, calls no summarizer, submits nothing, polls nothing)
   and ends with a configuration error. *)
C18_ConfigValidatedFirst ==
  ~validate_settings(env.settings).ok =>
    /\ articles = <<>> /\ summarizer_calls = <<>> /\ submits = 0 /\ polls = 0
    /\ pc = "start" \/ ConfigurationError

----------------------------------------------------------------------------
(* Status requests *)

\* a step that deletes the job
Deleting == deletes' # deletes

(* C13: status requests are idempotent and free of side effects. A status
   request, by get_video_status or by the wait, leaves the provider's job as
   it is, submits nothing and deletes nothing; against a job already done or
   failed, an answered get_video_status returns the job's body as it is and
   an answered request of the wait ends the wait by that body (its
   result_url, or the render error); a job done or failed changes no more
   unless it is deleted, so that a terminal body once returned is returned
   by every later answered request. *)
C13_PollingIdempotent ==
  /\ [][\A resp \in StatusAnswers(remote) :
          (GetVideoStatusWith(resp) \/ \E d \in env.latency : PollWith(resp, d)) =>
             /\ remote' = remote
             /\ submits' = submits
             /\ deletes' = deletes
             /\ talk_id' = talk_id]_vars
  /\ [][TerminalJob(remote) =>
          \A resp \in StatusAnswers(remote) :
             /\ (GetVideoStatusWith(resp) /\ resp.ok) =>
                  status_result' = [state |-> "returned", body |-> remote]
             /\ \A d \in env.latency : (PollWith(resp, d) /\ resp.ok) =>
                  IF remote.status = "done"
                  THEN wait_result' = Returned(remote.result_url)
                  ELSE /\ wait_result'.state = "raised"
                       /\ ErrorKind(wait_result'.exc) = "RenderError"]_vars
  /\ [][(TerminalJob(remote) /\ ~Deleting) => remote' = remote]_vars
  /\ []((status_result.state = "returned" /\ TerminalJob(status_result.body)) =>
          (remote = status_result.body \/ remote = Deleted))

\* the job was done while a request of the wait failed; the next request
\* ended the wait with its url and get_video_status returned the same body
C13_Witness ==
  /\ Succeeded
  /\ poll_failed
  /\ remote = DonePoll("https://d-id/result.mp4")
  /\ status_result = [state |-> "returned", body |-> remote]
  /\ wait_result = Returned(remote.result_url)

----------------------------------------------------------------------------
(* The reader of the stream *)

(* C19: in progressive mode the reader cannot reach the render job through
   the stream. No run issues the deletion call, and none submits twice; the
   step in which the reader closes its side changes nothing of the run and
   nothing of the provider's job; a generator that is closed on a closed
   stream makes no call on its way out (no submission, no status request, no
   deletion) and leaves the provider's job as it is; and while a job is in
   flight the run is not closed: with the reader gone the wait can still
   take its next step, and it leaves the wait only by its own end. *)
C19_CloseHasNoEffectOnJob ==
  /\ [](deletes = 0 /\ submits <= 1)
  /\ [][(consumer = "open" /\ consumer' = "closed") =>
          (run_vars' = run_vars /\ remote' = remote /\ deletes' = deletes)]_vars
  /\ [][pc' = "abandoned" =>
          /\ consumer = "closed"
          /\ pc # "wait"
          /\ submits' = submits /\ polls' = polls /\ deletes' = deletes
          /\ remote' = remote /\ talk_id' = talk_id]_vars
  /\ [](pc = "wait" => ENABLED (PollJob \/ (WaitTimeout /\ Alone)))
  /\ [][(consumer = "closed" /\ pc = "wait") => pc' \in {"wait", "end"}]_vars

\* the reader is gone, the job is in flight and the wait goes on polling it
C19_Witness ==
  /\ consumer = "closed"
  /\ pc = "wait"
  /\ remote.status = "started"
  /\ polls >= 2

----------------------------------------------------------------------------
(* The two handlers *)

\* the second request has ended
Ended2 == run2.pc = "end"

(* C16: the blocking handler and the progressive handler run the same stage
   sequence. Served side by side with the same answers of the scraper, the
   summarizer, the composer and the render provider, the two are at every
   moment at the same stage with the same calls made (the same articles
   scraped, as many summarizer calls, submissions and status requests, the
   same job identifier), neither is ever stuck while the other could go on,
   and they end together with the same outcome: both succeed with the same
   script, video url and articles, or both fail with a message that names
   the same stage. *)
C16_SameStagesBothModes ==
  /\ pc = run2.pc
  /\ articles = run2.articles
  /\ idx = run2.idx
  /\ Len(summarizer_calls) = run2.idx
  /\ summarized_articles = run2.summarized_articles
  /\ script = run2.script
  /\ submits = run2.submits
  /\ talk_id = run2.talk_id
  /\ polls = run2.polls
  /\ clock = run2.clock
  /\ ~Ended => ENABLED NextPair
  /\ Ended =>
       /\ stream_closed
       /\ Succeeded <=> run2.response.kind = "success"
       /\ Failed <=> run2.response.kind = "http_error"
       /\ Succeeded =>
            /\ Result.script = run2.response.script
            /\ Result.video_url = run2.response.video_url
            /\ Result.articles = run2.response.articles
       /\ Failed => StageTag(FailureMessage) = StageTag(run2.response.detail)

\* both handlers lost the second of three summaries and delivered the video
C16_Witness ==
  /\ mode = "progressive"
  /\ Succeeded
  /\ run2.response.kind = "success"
  /\ summarize_outcomes = <<TRUE, FALSE, TRUE>>
  /\ Len(run2.response.articles) = 2
  /\ run2.polls >= 2

----------------------------------------------------------------------------
(* Requests served at once *)

\* the articles of a list, without their summaries
Cards(arts) == [i \in 1..Len(arts) |-> [title |-> arts[i].title, url |-> arts[i].url]]

\* seq is made of elements of from, in the order of from
RECURSIVE IsSubsequence(_, _)
IsSubsequence(seq, from) ==
  IF seq = <<>> THEN TRUE
  ELSE IF from = <<>> THEN FALSE
  ELSE IF Head(seq) = Head(from) THEN IsSubsequence(Tail(seq), Tail(from))
  ELSE IsSubsequence(seq, Tail(from))

\* what the second request holds is made of what it got itself
Own2 ==
  /\ run2.articles \in {<<>>, scrape_articles(env.web, NumArticles)}
  /\ run2.idx <= Len(run2.articles)
  /\ IsSubsequence(Cards(run2.summarized_articles),
                   Cards(SubSeq(run2.articles, 1, run2.idx)))
  /\ run2.script # <<>> => run2.script = generate_script(run2.summarized_articles)
  /\ run2.submits <= 1
  /\ run2.response.kind = "success" =>
       run2.response = NewsVideoResponse(run2.script, run2.wait_result.url,
                                         run2.summarized_articles)

\* and so is what the first request holds
Own1 ==
  /\ articles \in {<<>>, scrape_articles(env.web, NumArticles)}
  /\ composer_calls = 1 => script = generate_script(summarized_articles)
  /\ C9_SummarizedSubsequence
  /\ C11_NoPartialResult

(* C17: requests served at once are independent. With the steps of two
   requests interleaved in any order, a step of one changes nothing that the
   other holds, no step writes the module-level list of log_capturer, and
   what each request holds (articles, summaries, script, job identifier,
   events, outcome) is made of its own scrape, its own summaries and its own
   render job, as when it is served alone. *)
C17_RunsIndependent ==
  /\ [](Own1 /\ Own2 /\ log_capturer = <<>>)
  /\ [][run2' # run2 => run_vars' = run_vars]_vars
  /\ [][run_vars' # run_vars => run2' = run2]_vars

\* the two requests ended differently: the first lost its first summary and
\* delivered a video, the second kept both summaries and timed out
C17_Witness ==
  /\ Succeeded
  /\ summarize_outcomes = <<FALSE, TRUE>>
  /\ Ended2
  /\ Len(run2.summarized_articles) = 2
  /\ run2.response.kind = "http_error"
  /\ run2.wait_result.exc.type = "TimeoutError"

----------------------------------------------------------------------------
(* The order of the remote calls *)

\* the stage a run has reached, as a number
StageNo ==
  CASE pc = "start" -> 1
    [] pc = "summarize" -> 2
    [] pc = "render" -> 3
    [] pc = "wait" -> 4
    [] OTHER -> 5

\* the stage named by the failure a run ended with
FailedAt(stage) == Failed /\ StageTag(FailureMessage) = stage

(* C21: the remote calls of a run occur in stage order and the render job is
   submitted once. The scraper's result is taken only by the first step of
   the run, before any summarizer call; a summarizer call is made only
   before the submission; the submission is made once, after the last
   summarizer call and before every status request; every status request
   carries the identifier that submission returned; a run never steps back
   to an earlier stage; and a run that failed makes no further call: one
   that failed before the render stage has submitted nothing, one whose
   submission failed has polled nothing, and no failure of the wait is
   followed by another submission. *)
C21_CallsInStageOrder ==
  /\ [][/\ StageNo' >= StageNo
        /\ articles' # articles =>
              (pc = "start" /\ summarizer_calls = <<>> /\ submits = 0 /\ polls = 0)
        /\ pc # "start" => articles' = articles
        /\ summarizer_calls' # summarizer_calls =>
              (pc = "summarize" /\ composer_calls = 0 /\ submits = 0 /\ polls = 0)
        /\ submits' # submits =>
              /\ submits = 0 /\ submits' = 1 /\ polls = 0
              /\ Len(summarizer_calls) = Len(articles)
              /\ summarizer_calls' = summarizer_calls
              /\ composer_calls = 1
        /\ talk_id' # talk_id => (submits' = submits + 1 /\ talk_id = Missing)
        /\ polls' # polls =>
              /\ submits = 1 /\ submits' = 1
              /\ talk_id # Missing /\ talk_id' = talk_id
              /\ poll_ids' = {talk_id}
        /\ Ended => UNCHANGED <<articles, summarizer_calls, composer_calls,
                                submits, polls, poll_ids, talk_id>>]_vars
  /\ [](/\ submits <= 1
        /\ pc = "wait" => submits = 1
        /\ Succeeded => (submits = 1 /\ polls >= 1 /\ poll_ids = {talk_id})
        /\ FailedAt("scrape") =>
              (summarizer_calls = <<>> /\ composer_calls = 0 /\ submits = 0 /\ polls = 0)
        /\ (FailedAt("summarize") \/ FailedAt("script")) => (submits = 0 /\ polls = 0)
        /\ FailedAt("render") => submits <= 1
        /\ (Failed /\ talk_id = Missing) => polls = 0
        /\ (Ended /\ wait_result.state = "raised") => (Failed /\ submits = 1))

\* five articles summarized, one submission, and a wait that polled the
\* returned identifier until the time ran out
C21_Witness ==
  /\ FailedAt("render")
  /\ wait_result.exc.type = "TimeoutError"
  /\ Len(summarizer_calls) = NumArticles
  /\ submits = 1
  /\ polls = MaxPolls
  /\ poll_ids = {talk_id}

----------------------------------------------------------------------------
(* The scraper *)

\* the pages behind all links of a source list, in the order of discovery
DiscoveredPages == Flatten([j \in 1..Len(env.web) |-> get_article_links(env.web[j])])

\* a page that can be extracted and meets the three requirements on an article
ValidPage(page) ==
  /\ ~page.raises
  /\ page.title_len >= 10
  /\ page.content_len >= 200
  /\ page.id # 0

\* the url of every element, in order
Urls(items) == [i \in 1..Len(items) |-> items[i].url]
Ids(pages) == [i \in 1..Len(pages) |-> pages[i].id]

IsPrefix(seq, of) == Len(seq) <= Len(of) /\ seq = SubSeq(of, 1, Len(seq))

(* C22: scrape_articles(num_articles), for every source list and every
   pattern of failing sources, failing links and invalid pages. The list
   returned has at most num_articles entries, each with a title of at least
   10 characters, a text of at least 200 and a url; it is made of the first
   num_articles valid pages in the order of discovery, so that no failing
   source or link ends the scrape before it: a scrape that returns fewer
   than num_articles has requested every source and every link. Sources and
   links are requested in order, and once num_articles articles are
   collected nothing more is requested: the last link requested is the one
   of the last article, no request is made at all when num_articles is 0,
   and the call returns what scrape_articles as used by the runs returns. *)
C22_ScrapeArticles ==
  /\ [](/\ Len(scraper.articles) <= scraper.num_articles
        /\ IsPrefix(scraper.link_fetches, Ids(DiscoveredPages))
        /\ scraper.source_fetches = [j \in 1..scraper.sources_tried |-> j]
        /\ (scraper.pc # "idle" /\ Len(scraper.articles) = scraper.num_articles) =>
              IF scraper.num_articles = 0
              THEN scraper.link_fetches = <<>> /\ scraper.source_fetches = <<>>
              ELSE /\ Last(scraper.link_fetches) = Last(scraper.articles).url
                   /\ Last(scraper.source_fetches) = Last(scraper.articles).url \div max_links
        /\ scraper.pc = "done" =>
              /\ Len(scraper.result) <= scraper.num_articles
              /\ \A i \in 1..Len(scraper.result) :
                    /\ scraper.result[i].title.len >= 10
                    /\ scraper.result[i].content.len >= 200
                    /\ scraper.result[i].url # 0
              /\ Urls(scraper.result) =
                    Take(Ids(SelectSeq(DiscoveredPages, ValidPage)), scraper.num_articles)
              /\ Len(scraper.result) < scraper.num_articles =>
                    /\ scraper.sources_tried = Len(env.web)
                    /\ scraper.link_fetches = Ids(DiscoveredPages)
              /\ scraper.result =
                    scrape_articles([j \in 1..Len(env.web) |-> get_article_links(env.web[j])],
                                    scraper.num_articles))
  /\ [][(scraper.pc # "idle" /\ Len(scraper.articles) >= scraper.num_articles) =>
          /\ scraper'.link_fetches = scraper.link_fetches
          /\ scraper'.source_fetches = scraper.source_fetches
          /\ scraper'.articles = scraper.articles]_vars
  /\ [][scraper.pc = "done" => scraper' = scraper]_vars

\* one article wanted: the first source fails, the first link of the second
\* raises, its second link is the article, and its third link is never requested
C22_Witness ==
  /\ scraper.pc = "done"
  /\ scraper.num_articles = 1
  /\ Len(env.web) = 2
  /\ env.web[1].fails
  /\ Len(env.web[2].links) = 3
  /\ env.web[2].links[1].raises
  /\ Urls(scraper.result) = <<LinkId(2, 2)>>
  /\ scraper.source_fetches = <<1, 2>>
  /\ scraper.link_fetches = <<LinkId(2, 1), LinkId(2, 2)>>

====
